---------------------------- MODULE Spec2Model ----------------------------
(***************************************************************************)
(* Model of utils/feature_engineer_df.py: the trending-category detector   *)
(* identify_trending_categories and the orchestrator build_features.       *)
(*                                                                         *)
(* Time is counted in whole days; day 0 is a Monday, so the pandas weekly  *)
(* period ('W', i.e. W-SUN: Monday..Sunday) of day t is t \div 7 and its   *)
(* start timestamp is 7 * (t \div 7).  Success rates and thresholds are    *)
(* exact fractions <<numerator, denominator>>.                             *)
(***************************************************************************)
EXTENDS Integers, Sequences, FiniteSets, TLC

VARIABLES
    df,                      \* the caller's table: sequence of rows
    columns,                 \* df.columns: the column names present
    lookback_weeks,          \* argument
    success_rate_threshold,  \* argument: None or a fraction <<n, d>>
    pc,                      \* position inside identify_trending_categories
    df_sorted,               \* the parsed copy sorted by launched
    unique_weeks,            \* sorted distinct weekly periods
    i,                       \* index of the for loop over unique_weeks
    is_trending,             \* the result series: index label -> BOOLEAN
    result,                  \* the returned series, in the caller's row order
    error,                   \* the exception raised, or NoError
    writes,                  \* history: index label -> the weeks whose iteration wrote it
    fs,                      \* build_features: which files exist
    bpc,                     \* position inside build_features
    frame,                   \* build_features: the table being engineered
    events                   \* build_features: the steps performed, in order

vars == <<df, columns, lookback_weeks, success_rate_threshold, pc, df_sorted,
          unique_weeks, i, is_trending, result, error, writes,
          fs, bpc, frame, events>>

pipeline_vars == <<fs, bpc, frame, events>>

---------------------------------------------------------------------------
(* Values *)

\* pandas NaT: what to_datetime(errors='coerce') yields for a bad value.
NaT == -1

\* Raw launched values that do not parse: a missing cell and a garbage string.
MissingCell == -1

GarbageString == -2

\* success_rate_threshold=None
None == <<>>

NoError == <<"none">>

DaysPerWeek == 7

\* category_stats['volume'] >= 5
MinVolume == 5

\* .quantile(0.75), as the fraction QuantileNum / QuantileDen
QuantileNum == 3

QuantileDen == 4

required_cols == <<"launched", "main_category", "target">>

Range(s) == {s[k] : k \in DOMAIN s}

---------------------------------------------------------------------------
(* identify_trending_categories, step by step *)

\* The check with 'target' left out of the required columns.
missing_cols_without_target(cols) ==
    SelectSeq(<<"launched", "main_category">>, LAMBDA c : c \notin cols)

\* missing_cols = [col for col in required_cols if col not in df.columns]
missing_cols(cols) == SelectSeq(required_cols, LAMBDA c : c \notin cols)

\* pd.to_datetime(df['launched'], errors='coerce')
to_datetime(v) == IF v >= 0 THEN v ELSE NaT

\* .dt.to_period('W')
to_period_W(t) == IF t = NaT THEN NaT ELSE t \div DaysPerWeek

\* current_week.to_timestamp()
to_timestamp(w) == w * DaysPerWeek

\* pd.Timedelta(weeks=lookback_weeks)
Timedelta_weeks(n) == n * DaysPerWeek

\* df = df.copy(); df['launched'] = to_datetime(...); df['launch_year_week'] = ...
parse_frame(table) ==
    [k \in DOMAIN table |->
        [idx |-> table[k].idx,
         launched |-> to_datetime(table[k].launched),
         launch_year_week |-> to_period_W(to_datetime(table[k].launched)),
         main_category |-> table[k].main_category,
         target |-> table[k].target]]

\* sorted(...) of a set of integers.
RECURSIVE sorted_seq(_)
sorted_seq(S) ==
    IF S = {} THEN <<>>
    ELSE LET m == CHOOSE x \in S : \A y \in S : x <= y
         IN  <<m>> \o sorted_seq(S \ {m})

\* The rows of table launched at each of the given times, time after time,
\* rows of one time in table order.
RECURSIVE rows_by_time(_, _)
rows_by_time(table, times) ==
    IF times = <<>> THEN <<>>
    ELSE SelectSeq(table, LAMBDA r : r.launched = Head(times))
         \o rows_by_time(table, Tail(times))

\* df.sort_values('launched'): ascending launched, NaT last; rows with equal
\* launched stay in table order (their order has no effect on the labels).
sort_values(table) ==
    LET times == sorted_seq({table[k].launched : k \in DOMAIN table} \ {NaT})
    IN  rows_by_time(table, times)
        \o SelectSeq(table, LAMBDA r : r.launched = NaT)

\* sorted(df_sorted['launch_year_week'].dropna().unique())
compute_unique_weeks(s) ==
    sorted_seq({s[k].launch_year_week : k \in DOMAIN s} \ {NaT})

\* The mask taken with <=: the rows of earlier weeks are selected as well.
week_equals_or_earlier(row_week, current_week) ==
    row_week # NaT /\ row_week <= current_week

\* df_sorted['launch_year_week'] == current_week   (NaT == x is False)
week_equals(row_week, current_week) == row_week # NaT /\ row_week = current_week

current_week_mask(s, current_week) ==
    {k \in DOMAIN s : week_equals(s[k].launch_year_week, current_week)}

\* The comparisons taken on the raw number: NaT counts as an early timestamp.
in_historical_window_nat_blind(t, lookback_start, current_week_start) ==
    t >= lookback_start /\ t < current_week_start

\* The window with its upper end closed: the week's first instant is history.
in_historical_window_closed(t, lookback_start, current_week_start) ==
    t # NaT /\ t >= lookback_start /\ t <= current_week_start

\* (launched >= lookback_start) & (launched < current_week_start); a comparison
\* with NaT is False.
in_historical_window(t, lookback_start, current_week_start) ==
    t # NaT /\ t >= lookback_start /\ t < current_week_start

historical_mask(s, current_week, lookback) ==
    LET current_week_start == to_timestamp(current_week)
        lookback_start == current_week_start - Timedelta_weeks(lookback)
    IN  {k \in DOMAIN s :
            in_historical_window(s[k].launched, lookback_start, current_week_start)}

\* historical_df.groupby('main_category').agg({'target': ['count', 'mean']});
\* the mean is kept as successes / volume.
category_stats(s, H) ==
    [c \in {s[k].main_category : k \in H} |->
        [volume |-> Cardinality({k \in H : s[k].main_category = c}),
         successes |-> Cardinality({k \in H : s[k].main_category = c /\ s[k].target = 1})]]

\* The support filter off by one: four rows are enough.
has_min_volume_off_by_one(volume) == volume >= MinVolume - 1

\* category_stats['volume'] >= 5
has_min_volume(volume) == volume >= MinVolume

volume_filter(stats) == {c \in DOMAIN stats : has_min_volume(stats[c].volume)}

\* Fractions <<n, d>> with d > 0.
frac_le(x, y) == x[1] * y[2] <= y[1] * x[2]

frac_lt(x, y) == x[1] * y[2] < y[1] * x[2]

rate_of(stats, c) == <<stats[c].successes, stats[c].volume>>

\* The value at 0-based position p of the kept categories' success rates in
\* ascending order (one entry per category).
order_statistic(stats, kept, p) ==
    rate_of(stats,
        CHOOSE c \in kept :
            /\ Cardinality({d \in kept : frac_lt(rate_of(stats, d), rate_of(stats, c))}) <= p
            /\ p < Cardinality({d \in kept : frac_le(rate_of(stats, d), rate_of(stats, c))}))

\* category_stats['success_rate'].quantile(0.75) with the default linear
\* interpolation: the value at the fractional position q * (n - 1).
quantile(stats, kept) ==
    LET n == Cardinality(kept)
        pos == QuantileNum * (n - 1)
        lo == pos \div QuantileDen
        f == pos % QuantileDen
        hi == IF lo + 1 < n THEN lo + 1 ELSE lo
        a == order_statistic(stats, kept, lo)
        b == order_statistic(stats, kept, hi)
    IN  <<QuantileDen * a[1] * b[2] + f * (b[1] * a[2] - a[1] * b[2]),
          QuantileDen * a[2] * b[2]>>

\* The argument ignored: the percentile in both modes.
threshold_always_percentile(stats, kept, fixed) == quantile(stats, kept)

\* threshold = quantile(0.75) if success_rate_threshold is None else the argument
threshold(stats, kept, fixed) ==
    IF fixed = None THEN quantile(stats, kept) ELSE fixed

\* The comparison made strict: a rate equal to the threshold does not count.
meets_threshold_strict(rate, thr) == frac_lt(thr, rate)

\* category_stats['success_rate'] >= threshold
meets_threshold(rate, thr) == frac_le(thr, rate)

trending_categories(stats, kept, fixed) ==
    {c \in kept : meets_threshold(rate_of(stats, c), threshold(stats, kept, fixed))}

\* The iteration without its last `continue`: when no category passes the
\* support filter, all historical categories stand in for the kept ones.
week_outcome_unfiltered_fallback(s, current_week, lookback, fixed) ==
    LET cur == current_week_mask(s, current_week)
        H == historical_mask(s, current_week, lookback)
        stats == category_stats(s, H)
        kept == IF volume_filter(stats) = {} THEN DOMAIN stats ELSE volume_filter(stats)
    IN  IF cur = {} \/ H = {}
        THEN [skipped |-> TRUE, rows |-> cur, history |-> H, trending |-> {}]
        ELSE [skipped |-> FALSE, rows |-> cur, history |-> H,
              trending |-> trending_categories(stats, kept, fixed)]

\* The trending set one iteration of the loop computes for current_week, or
\* {} with skipped = TRUE when the iteration hits one of its `continue`s.
week_outcome(s, current_week, lookback, fixed) ==
    LET cur == current_week_mask(s, current_week)
        H == historical_mask(s, current_week, lookback)
        stats == category_stats(s, H)
        kept == volume_filter(stats)
    IN  IF cur = {} \/ H = {} \/ kept = {}
        THEN [skipped |-> TRUE, rows |-> cur, history |-> H, trending |-> {}]
        ELSE [skipped |-> FALSE, rows |-> cur, history |-> H,
              trending |-> trending_categories(stats, kept, fixed)]

\* is_trending.loc[current_week_mask] = current_week_categories.isin(trending)
week_body(labels, s, current_week, lookback, fixed) ==
    LET o == week_outcome(s, current_week, lookback, fixed)
        written == {s[k].idx : k \in o.rows}
        marked == {s[k].idx : k \in {r \in o.rows : s[r].main_category \in o.trending}}
    IN  IF o.skipped THEN labels
        ELSE [l \in DOMAIN labels |-> IF l \in written THEN l \in marked ELSE labels[l]]

\* The index labels one iteration assigns.
week_writes(s, current_week, lookback, fixed) ==
    LET o == week_outcome(s, current_week, lookback, fixed)
    IN  IF o.skipped THEN {} ELSE {s[k].idx : k \in o.rows}

\* History of the assignments: every label an iteration assigns records the
\* week of that iteration.
count_writes(counts, s, current_week, lookback, fixed) ==
    LET written == week_writes(s, current_week, lookback, fixed)
    IN  [l \in DOMAIN counts |->
            IF l \in written THEN Append(counts[l], current_week) ELSE counts[l]]

\* pd.Series(False, index=df_sorted.index)
initial_series(s) == [l \in {s[k].idx : k \in DOMAIN s} |-> FALSE]

\* The series returned as it is, in the order of the sorted copy.
reindex_skipped(labels, table) ==
    LET s == sort_values(parse_frame(table))
    IN  [k \in DOMAIN table |-> labels[s[k].idx]]

\* is_trending.reindex(df.index, fill_value=False)
reindex(labels, table) ==
    [k \in DOMAIN table |->
        IF table[k].idx \in DOMAIN labels THEN labels[table[k].idx] ELSE FALSE]

\* The loop over a sequence of weeks, in the order given.
RECURSIVE run_weeks(_, _, _, _, _)
run_weeks(labels, s, weeks, lookback, fixed) ==
    IF weeks = <<>> THEN labels
    ELSE run_weeks(week_body(labels, s, Head(weeks), lookback, fixed),
                   s, Tail(weeks), lookback, fixed)

\* The whole function on a table that has the required columns.
identify_trending_categories(table, lookback, fixed) ==
    LET s == sort_values(parse_frame(table))
    IN  reindex(run_weeks(initial_series(s), s, compute_unique_weeks(s),
                          lookback, fixed),
                table)



---------------------------------------------------------------------------
(* build_features *)

\* lookback_weeks=4 in the call of identify_trending_categories
PipelineLookback == 4

\* The top-level functions utils/clean_df.py defines.
clean_df_defines == {"clean_ks_data"}

\* from utils.clean_df import clean_kickstarter_data (line 8), called at
\* lines 131-135.  The name is looked up among clean_df_defines; Python makes
\* that lookup when the module is loaded, build_features is modelled as
\* entered and the lookup made where the function is called.
cleaning_function == "clean_kickstarter_data"

\* df[(df["usd_goal_real"] > 0) & (df["usd_pledged_real"] > 0)].copy():
\* the rows kept keep their index labels.
positive_amounts(table) ==
    SelectSeq(table, LAMBDA r : r.usd_goal_real > 0 /\ r.usd_pledged_real > 0)

\* The columns of a row that identify_trending_categories reads.
detector_columns(table) ==
    [k \in DOMAIN table |->
        [idx |-> table[k].idx, launched |-> table[k].launched,
         main_category |-> table[k].main_category, target |-> table[k].target]]

\* df['is_trending_category'] = identify_trending_categories(df, 4, None)
add_trending_column(table) ==
    LET labels == identify_trending_categories(detector_columns(table),
                                               PipelineLookback, None)
    IN  [k \in DOMAIN table |->
            [idx |-> table[k].idx, launched |-> to_datetime(table[k].launched),
             main_category |-> table[k].main_category, target |-> table[k].target,
             usd_goal_real |-> table[k].usd_goal_real,
             usd_pledged_real |-> table[k].usd_pledged_real,
             is_trending_category |-> labels[k]]]

---------------------------------------------------------------------------
(* The inputs explored *)

MaxFreeRows == 1

MaxLookback == 2

Row(launched, cat, target) ==
    [launched |-> launched, main_category |-> cat, target |-> target]

\* succ successful rows followed by fail failed rows of one category and day.
Block(launched, cat, succ, fail) ==
    [k \in 1..(succ + fail) |-> Row(launched, cat, IF k <= succ THEN 1 ELSE 0)]

\* A and B every week, A always successful and B always failing.
ScenarioEndToEnd ==
    Block(14, "A", 5, 0) \o Block(7, "A", 5, 0) \o Block(7, "B", 0, 5)
    \o Block(21, "A", 1, 0) \o Block(14, "B", 0, 5) \o Block(21, "B", 0, 1)

\* A has four historical rows, all successful; B has five.
ScenarioSupport ==
    Block(14, "A", 1, 0) \o Block(13, "A", 4, 0) \o Block(7, "B", 3, 2)
    \o Block(14, "B", 0, 1)

\* A's history lies one day before the one-week window of week 2.
ScenarioBoundary ==
    Block(14, "B", 1, 0) \o Block(6, "A", 5, 0) \o Block(14, "A", 1, 0)
    \o Block(13, "B", 0, 5) \o Block(21, "A", 0, 1)

\* Rates A 0.9, B 0.9, C 0.5, D 0.5, E 0.5 in the week before day 14.
ScenarioFiveRates ==
    Block(14, "C", 1, 0) \o Block(14, "A", 0, 1) \o Block(7, "A", 9, 1)
    \o Block(13, "B", 9, 1) \o Block(7, "C", 3, 3) \o Block(13, "D", 3, 3)
    \o Block(7, "E", 3, 3) \o Block(14, "B", 1, 0) \o Block(14, "D", 1, 0)
    \o Block(14, "E", 1, 0)

\* Three kept categories, the two best tied; C has many more rows.
ScenarioTies ==
    Block(21, "A", 1, 0) \o Block(7, "C", 0, 7) \o Block(13, "A", 5, 0)
    \o Block(14, "C", 1, 0) \o Block(13, "B", 5, 0) \o Block(14, "B", 1, 0)
    \o Block(14, "A", 1, 0)

\* Rows whose launched does not parse, next to week 0 and week 1 rows.
ScenarioBadDates ==
    Block(GarbageString, "A", 5, 0) \o Block(7, "A", 1, 0) \o Block(6, "A", 0, 5)
    \o Block(MissingCell, "B", 0, 1) \o Block(6, "B", 2, 3) \o Block(7, "B", 1, 0)

\* Rates A 1.0, B 0.6, C 0.0; C has three times the rows of A and of B.
ScenarioWeights ==
    Block(14, "B", 1, 0) \o Block(7, "C", 0, 15) \o Block(13, "A", 5, 0)
    \o Block(14, "A", 1, 0) \o Block(7, "B", 3, 2) \o Block(14, "C", 1, 0)

\* Every row in the same week.
ScenarioSingleWeek ==
    Block(20, "A", 5, 0) \o Block(14, "B", 0, 5) \o Block(14, "A", 1, 0)

Scenarios ==
    {ScenarioEndToEnd, ScenarioSupport, ScenarioBoundary, ScenarioFiveRates,
     ScenarioTies, ScenarioBadDates, ScenarioWeights, ScenarioSingleWeek}

\* Single rows put in front of a scenario: one day before the one-week window
\* of week 2, on the window's last day, on the first day of week 2, and with
\* no launched at all.
FreeRows ==
    {Row(6, "A", 0), Row(13, "A", 1), Row(13, "B", 0), Row(14, "A", 0),
     Row(14, "B", 1), Row(MissingCell, "A", 1)}

RECURSIVE SeqsUpTo(_, _)
SeqsUpTo(S, n) ==
    IF n = 0 THEN {<<>>}
    ELSE LET shorter == SeqsUpTo(S, n - 1)
         IN  shorter \cup {Append(q, x) : q \in shorter, x \in S}

\* pandas' default RangeIndex: row k carries index label k - 1.
with_range_index(rows) ==
    [k \in DOMAIN rows |->
        [idx |-> k - 1, launched |-> rows[k].launched,
         main_category |-> rows[k].main_category, target |-> rows[k].target]]

Tables ==
    {with_range_index(free \o sc) : free \in SeqsUpTo(FreeRows, MaxFreeRows),
                                     sc \in Scenarios}

FixedThresholds == {<<4, 5>>, <<2, 5>>}

Thresholds == {None} \cup FixedThresholds

ColumnSets == SUBSET Range(required_cols)

---------------------------------------------------------------------------
(* The detector as a state machine *)

PipelineIdle ==
    /\ fs = [input |-> FALSE, raw |-> FALSE, output |-> FALSE,
             input_rows |-> <<>>, output_rows |-> <<>>]
    /\ bpc = "idle"
    /\ frame = <<>>
    /\ events = <<>>

DetectorStart ==
    /\ pc = "check_columns"
    /\ df_sorted = <<>>
    /\ unique_weeks = <<>>
    /\ i = 0
    /\ is_trending = <<>>
    /\ result = <<>>
    /\ error = NoError
    /\ writes = <<>>

Init ==
    /\ lookback_weeks \in 1..MaxLookback
    /\ success_rate_threshold \in Thresholds
    /\ \/ columns = Range(required_cols) /\ df \in Tables
       \/ columns \in ColumnSets \ {Range(required_cols)}
          /\ df \in {with_range_index(sc) : sc \in Scenarios}
    /\ DetectorStart
    /\ PipelineIdle

\* lines 37-41
CheckColumns ==
    /\ pc = "check_columns"
    /\ IF missing_cols(columns) # <<>>
       THEN /\ error' = <<"ValueError", "Missing required columns", missing_cols(columns)>>
            /\ pc' = "raised"
       ELSE /\ error' = error
            /\ pc' = "prepare"
    /\ UNCHANGED <<df, columns, lookback_weeks, success_rate_threshold, df_sorted,
                   unique_weeks, i, is_trending, result, writes>>
    /\ UNCHANGED pipeline_vars

\* lines 43-57
Prepare ==
    /\ pc = "prepare"
    /\ df_sorted' = sort_values(parse_frame(df))
    /\ is_trending' = initial_series(df_sorted')
    /\ writes' = [l \in DOMAIN is_trending' |-> <<>>]
    /\ unique_weeks' = compute_unique_weeks(df_sorted')
    /\ i' = 1
    /\ pc' = "loop"
    /\ UNCHANGED <<df, columns, lookback_weeks, success_rate_threshold, result, error>>
    /\ UNCHANGED pipeline_vars

\* lines 60-108: one iteration of the for loop
WeekIteration ==
    /\ pc = "loop"
    /\ i <= Len(unique_weeks)
    /\ is_trending' = week_body(is_trending, df_sorted, unique_weeks[i],
                                lookback_weeks, success_rate_threshold)
    /\ writes' = count_writes(writes, df_sorted, unique_weeks[i], lookback_weeks,
                              success_rate_threshold)
    /\ i' = i + 1
    /\ UNCHANGED <<df, columns, lookback_weeks, success_rate_threshold, pc, df_sorted,
                   unique_weeks, result, error>>
    /\ UNCHANGED pipeline_vars

\* line 111
Return ==
    /\ pc = "loop"
    /\ i > Len(unique_weeks)
    /\ result' = reindex(is_trending, df)
    /\ pc' = "done"
    /\ UNCHANGED <<df, columns, lookback_weeks, success_rate_threshold, df_sorted,
                   unique_weeks, i, is_trending, error, writes>>
    /\ UNCHANGED pipeline_vars

---------------------------------------------------------------------------
(* build_features as a state machine *)

\* pd.read_csv(input_path): rows with a RangeIndex.
csv_rows(rows, pledged) ==
    [k \in DOMAIN rows |->
        [launched |-> rows[k].launched, main_category |-> rows[k].main_category,
         target |-> rows[k].target, usd_goal_real |-> 1, usd_pledged_real |-> pledged]]

read_csv(rows) ==
    [k \in DOMAIN rows |->
        [idx |-> k - 1, launched |-> rows[k].launched,
         main_category |-> rows[k].main_category, target |-> rows[k].target,
         usd_goal_real |-> rows[k].usd_goal_real,
         usd_pledged_real |-> rows[k].usd_pledged_real]]

CsvFiles ==
    {csv_rows(free, pledged) \o csv_rows(sc, 1) :
        free \in SeqsUpTo(FreeRows, MaxFreeRows), pledged \in {0, 1}, sc \in Scenarios}

DetectorIdle ==
    /\ df = <<>>
    /\ columns = {}
    /\ lookback_weeks = 0
    /\ success_rate_threshold = None
    /\ pc = "idle"
    /\ df_sorted = <<>>
    /\ unique_weeks = <<>>
    /\ i = 0
    /\ is_trending = <<>>
    /\ result = <<>>
    /\ error = NoError
    /\ writes = <<>>

PipelineInit ==
    /\ DetectorIdle
    /\ \E input, raw, output \in BOOLEAN :
          \E content \in (IF input THEN CsvFiles ELSE {<<>>}) :
             fs = [input |-> input, raw |-> raw, output |-> output,
                   input_rows |-> content, output_rows |-> <<>>]
    /\ bpc = "dependency_check"
    /\ frame = <<>>
    /\ events = <<>>

\* lines 122-136
DependencyCheck ==
    /\ bpc = "dependency_check"
    /\ IF fs.input
       THEN /\ bpc' = "load"
            /\ UNCHANGED <<fs, events, error>>
       ELSE IF ~fs.raw
       THEN /\ bpc' = "raised"
            /\ error' = <<"FileNotFoundError", "neither input nor raw file found">>
            /\ events' = events \o <<"warn_input_missing", "log_trigger_cleaning">>
            /\ UNCHANGED fs
       ELSE IF cleaning_function \notin clean_df_defines
       THEN /\ bpc' = "raised"
            /\ error' = <<"ImportError", cleaning_function>>
            /\ events' = events \o <<"warn_input_missing", "log_trigger_cleaning">>
            /\ UNCHANGED fs
       ELSE /\ bpc' = "load"
            /\ events' = events \o <<"warn_input_missing", "log_trigger_cleaning",
                                      "clean", "log_cleaning_finished">>
            /\ fs' = [fs EXCEPT !.input = TRUE]
            /\ UNCHANGED error
    /\ UNCHANGED <<df, columns, lookback_weeks, success_rate_threshold, pc, df_sorted,
                   unique_weeks, i, is_trending, result, writes, frame>>

\* lines 138-216: read the input, keep the rows with positive amounts and
\* derive the static features.  The static feature columns (groups, bins,
\* seasons) leave launched, main_category and target as they are and are
\* not carried in the rows.
LoadAndEngineer ==
    /\ bpc = "load"
    /\ frame' = positive_amounts(read_csv(fs.input_rows))
    /\ events' = events \o <<"read_input", "static_features">>
    /\ bpc' = "trending"
    /\ UNCHANGED <<fs, error>>
    /\ UNCHANGED <<df, columns, lookback_weeks, success_rate_threshold, pc, df_sorted,
                   unique_weeks, i, is_trending, result, writes>>

\* lines 218-227
TrendingFeature ==
    /\ bpc = "trending"
    /\ frame' = add_trending_column(frame)
    /\ events' = Append(events, "trending_feature")
    /\ bpc' = "save"
    /\ UNCHANGED <<fs, error>>
    /\ UNCHANGED <<df, columns, lookback_weeks, success_rate_threshold, pc, df_sorted,
                   unique_weeks, i, is_trending, result, writes>>

\* lines 229-234
Save ==
    /\ bpc = "save"
    /\ fs' = [fs EXCEPT !.output = TRUE, !.output_rows = frame]
    /\ events' = Append(events, "write_output")
    /\ bpc' = "done"
    /\ UNCHANGED <<frame, error>>
    /\ UNCHANGED <<df, columns, lookback_weeks, success_rate_threshold, pc, df_sorted,
                   unique_weeks, i, is_trending, result, writes>>

PipelineNext == DependencyCheck \/ LoadAndEngineer \/ TrendingFeature \/ Save

PipelineSpec == PipelineInit /\ [][PipelineNext]_vars

Next == CheckColumns \/ Prepare \/ WeekIteration \/ Return

Spec == Init /\ [][Next]_vars

---------------------------------------------------------------------------
(* What the properties are stated in: the caller's table read directly *)

Parsed == parse_frame(df)

Finished == pc = "done"

\* The weekly periods that occur in the caller's table.
WeeksPresent == {Parsed[k].launch_year_week : k \in DOMAIN df} \ {NaT}

\* Positions of the caller's rows that belong to week w.
RowsOfWeek(w) == {k \in DOMAIN df : Parsed[k].launched # NaT /\ Parsed[k].launch_year_week = w}

WeekStart(w) == 7 * w

\* Positions of the rows of a parsed table launched in
\* [WeekStart(w) - lookback_weeks * 7, WeekStart(w)).
WindowOf(table, w) ==
    {k \in DOMAIN table :
        /\ table[k].launched # NaT
        /\ WeekStart(w) - lookback_weeks * 7 <= table[k].launched
        /\ table[k].launched < WeekStart(w)}

Volume(table, w, c) == Cardinality({k \in WindowOf(table, w) : table[k].main_category = c})

Successes(table, w, c) ==
    Cardinality({k \in WindowOf(table, w) :
                    table[k].main_category = c /\ table[k].target = 1})

\* The categories with at least five rows in the window of week w.
Supported(table, w) ==
    {c \in {table[k].main_category : k \in WindowOf(table, w)} : Volume(table, w, c) >= 5}

\* The labels the detector gives the rows of `table`, by index label.
LabelsOf(table) ==
    LET out == identify_trending_categories(table, lookback_weeks, success_rate_threshold)
        at == [k \in DOMAIN table |-> table[k].idx]
    IN  [l \in Range(at) |-> out[CHOOSE k \in DOMAIN table : at[k] = l]]

\* The caller's table after an edit that touches only rows outside the
\* window of week w: the rows of week w get the opposite target, the rows of
\* later weeks and the rows older than the window are removed.
FlipTarget(r) == [r EXCEPT !.target = 1 - r.target]

EditedOutsideWindow(w) ==
    LET kept == SelectSeq(df, LAMBDA r :
                    \/ to_datetime(r.launched) = NaT
                    \/ /\ to_datetime(r.launched) >= WeekStart(w) - lookback_weeks * 7
                       /\ to_datetime(r.launched) < WeekStart(w) + 7)
    IN  [k \in DOMAIN kept |->
            IF to_datetime(kept[k].launched) # NaT /\ kept[k].launched >= WeekStart(w)
            THEN FlipTarget(kept[k]) ELSE kept[k]]

LeakFreeWeek(w) ==
    LET edited == LabelsOf(EditedOutsideWindow(w))
    IN  \A k \in RowsOfWeek(w) : result[k] = edited[df[k].idx]

\* C1: leakage-freedom.  The labels of every week w are decided by the rows
\* launched in [WeekStart(w) - lookback_weeks*7, WeekStart(w)) alone: the
\* history an iteration reads lies inside that window, and changing the
\* target of week w's own rows while removing every later row and every row
\* older than the window leaves week w's labels as they are.
C1_LeakageFreedom ==
    Finished =>
        \A w \in WeeksPresent :
            /\ \A k \in week_outcome(df_sorted, w, lookback_weeks,
                                     success_rate_threshold).history :
                  /\ df_sorted[k].launched # NaT
                  /\ df_sorted[k].launched < WeekStart(w)
                  /\ df_sorted[k].launched >= WeekStart(w) - lookback_weeks * 7
            /\ LeakFreeWeek(w)

\* A finished run in which some week has a trending row launched exactly at
\* the week's start, rows of a later week, and rows older than its window.
C1_Witness ==
    /\ Finished
    /\ \E w \in WeeksPresent :
          /\ \E k \in RowsOfWeek(w) : Parsed[k].launched = WeekStart(w) /\ result[k]
          /\ \E k \in DOMAIN df : Parsed[k].launched >= WeekStart(w) + 7
          /\ \E k \in DOMAIN df :
                /\ Parsed[k].launched # NaT
                /\ Parsed[k].launched < WeekStart(w) - lookback_weeks * 7

\* The label the row at position k of the caller's table is due: its
\* category is in the trending set of its own week.
DueLabel(k) ==
    /\ Parsed[k].launched # NaT
    /\ Parsed[k].main_category \in
          week_outcome(Parsed, Parsed[k].launch_year_week, lookback_weeks,
                       success_rate_threshold).trending

\* Whether the caller's rows are already in ascending launch order.
InLaunchOrder ==
    \A a, b \in DOMAIN df :
        (a < b /\ Parsed[a].launched # NaT /\ Parsed[b].launched # NaT)
            => Parsed[a].launched <= Parsed[b].launched

\* C2: row-count and order preservation.  The returned series has one
\* boolean per input row, and the boolean at position k is the label of the
\* input's k-th row, although the function works on a sorted copy.
C2_RowOrderPreserved ==
    Finished =>
        /\ DOMAIN result = DOMAIN df
        /\ \A k \in DOMAIN df : result[k] \in BOOLEAN /\ result[k] = DueLabel(k)

\* A finished run on a table that is not in launch order, with both labels.
C2_Witness ==
    /\ Finished
    /\ ~InLaunchOrder
    /\ \E a, b \in DOMAIN df : result[a] /\ ~result[b]

\* The caller's table without the window rows of the categories that have
\* fewer than five rows in the window of week w.
WithoutUnsupported(w) ==
    LET low == {c \in {Parsed[k].main_category : k \in WindowOf(Parsed, w)} :
                    Volume(Parsed, w, c) < 5}
        gone == {df[k].idx : k \in {j \in WindowOf(Parsed, w) :
                                        Parsed[j].main_category \in low}}
    IN  SelectSeq(df, LAMBDA r : r.idx \notin gone)

VolumeFilterWeek(w) ==
    LET without == LabelsOf(WithoutUnsupported(w))
    IN  \A k \in RowsOfWeek(w) :
            /\ Volume(Parsed, w, Parsed[k].main_category) < 5 => ~result[k]
            /\ result[k] = without[df[k].idx]

\* C3: volume filter.  A row whose category has fewer than five rows in its
\* week's window is labelled false in either threshold mode, and such
\* categories have no part in the threshold: without their window rows the
\* week's labels are the same.
C3_VolumeFilter ==
    Finished => \A w \in WeeksPresent : VolumeFilterWeek(w)

\* A finished run where a category with four historical rows, all of them
\* successful, is not trending in a week in which another category is.
C3_Witness ==
    /\ Finished
    /\ \E w \in WeeksPresent :
          \E a, b \in RowsOfWeek(w) :
             /\ Volume(Parsed, w, Parsed[a].main_category) = 4
             /\ Successes(Parsed, w, Parsed[a].main_category) = 4
             /\ ~result[a]
             /\ result[b]

\* Number of supported categories of week w whose rate is at most that of c.
AtMost(table, w, c) ==
    Cardinality({d \in Supported(table, w) :
        Successes(table, w, d) * Volume(table, w, c)
            <= Successes(table, w, c) * Volume(table, w, d)})

\* Top quarter by rank: c is supported and at least three quarters of the
\* other positions of the ascending rate list lie at or below c's rate.
InTopQuarter(table, w, c) ==
    /\ c \in Supported(table, w)
    /\ 4 * (AtMost(table, w, c) - 1) >= 3 * (Cardinality(Supported(table, w)) - 1)

\* The rows launched on `day`, as positions of the caller's table.
RowsOn(day, c) ==
    {k \in DOMAIN df : Parsed[k].launched = day /\ Parsed[k].main_category = c}

Labelled(day, c, value) ==
    RowsOn(day, c) # {} /\ \A k \in RowsOn(day, c) : result[k] = value

\* C4: default mode.  Without a supplied threshold a row is trending exactly
\* when its category is supported and sits at or above the 75th percentile of
\* the supported categories' rates, every category counting once and ties at
\* the boundary included: for rates A 0.9, B 0.9, C 0.5, D 0.5, E 0.5 the
\* trending set is {A, B}, and for A 1.0, B 0.6, C 0.0 with C three times as
\* large it is {A}.
C4_DefaultPercentile ==
    (Finished /\ success_rate_threshold = None) =>
        /\ \A w \in WeeksPresent : \A k \in RowsOfWeek(w) :
              result[k] = InTopQuarter(Parsed, w, Parsed[k].main_category)
        /\ df = with_range_index(ScenarioFiveRates) =>
              /\ Labelled(14, "A", TRUE) /\ Labelled(14, "B", TRUE)
              /\ Labelled(14, "C", FALSE) /\ Labelled(14, "D", FALSE)
              /\ Labelled(14, "E", FALSE)
        /\ df = with_range_index(ScenarioWeights) =>
              /\ Labelled(14, "A", TRUE) /\ Labelled(14, "B", FALSE)
              /\ Labelled(14, "C", FALSE)

\* The five-rates table finished in default mode, A and B trending.
C4_Witness ==
    /\ Finished
    /\ success_rate_threshold = None
    /\ df = with_range_index(ScenarioFiveRates)
    /\ Labelled(14, "A", TRUE) /\ Labelled(14, "B", TRUE) /\ Labelled(14, "C", FALSE)
    /\ Supported(Parsed, 2) = {"A", "B", "C", "D", "E"}

\* C5: fixed-threshold mode.  With a supplied threshold a row is trending
\* exactly when its category is supported and its historical success rate is
\* at least the supplied value, in every week: for rates A 0.9, B 0.9, C 0.5,
\* D 0.5, E 0.5 a threshold of 0.8 gives {A, B} and 0.4 gives all five.
C5_FixedThreshold ==
    (Finished /\ success_rate_threshold # None) =>
        /\ \A w \in WeeksPresent : \A k \in RowsOfWeek(w) :
              LET c == Parsed[k].main_category
              IN  result[k] =
                    /\ c \in Supported(Parsed, w)
                    /\ Successes(Parsed, w, c) * success_rate_threshold[2]
                          >= success_rate_threshold[1] * Volume(Parsed, w, c)
        /\ (df = with_range_index(ScenarioFiveRates) /\ success_rate_threshold = <<4, 5>>) =>
              /\ Labelled(14, "A", TRUE) /\ Labelled(14, "B", TRUE)
              /\ Labelled(14, "C", FALSE) /\ Labelled(14, "D", FALSE)
              /\ Labelled(14, "E", FALSE)
        /\ (df = with_range_index(ScenarioFiveRates) /\ success_rate_threshold = <<2, 5>>) =>
              /\ Labelled(14, "A", TRUE) /\ Labelled(14, "B", TRUE)
              /\ Labelled(14, "C", TRUE) /\ Labelled(14, "D", TRUE)
              /\ Labelled(14, "E", TRUE)

\* The five-rates table finished with threshold 0.4, all five trending.
C5_Witness ==
    /\ Finished
    /\ success_rate_threshold = <<2, 5>>
    /\ df = with_range_index(ScenarioFiveRates)
    /\ \A c \in {"A", "B", "C", "D", "E"} : Labelled(14, c, TRUE)

\* C6: empty-history default.  The rows of a week whose window holds no row,
\* or no category with five rows, are all labelled false; a table whose rows
\* all lie in one week gets only false labels; and a table that has the
\* required columns never makes the detector raise.
C6_EmptyHistoryDefault ==
    /\ Finished =>
          /\ \A w \in WeeksPresent :
                (WindowOf(Parsed, w) = {} \/ Supported(Parsed, w) = {})
                    => \A k \in RowsOfWeek(w) : ~result[k]
          /\ Cardinality(WeeksPresent) <= 1 => \A k \in DOMAIN df : ~result[k]
    /\ (columns = Range(required_cols) /\ pc # "check_columns") => error = NoError

\* A finished run with a week whose window is empty, a week whose window
\* holds rows but no supported category, and a trending row elsewhere.
C6_Witness ==
    /\ Finished
    /\ \E w \in WeeksPresent : WindowOf(Parsed, w) = {} /\ RowsOfWeek(w) # {}
    /\ \E w \in WeeksPresent :
          WindowOf(Parsed, w) # {} /\ Supported(Parsed, w) = {} /\ RowsOfWeek(w) # {}
    /\ \E k \in DOMAIN df : result[k]

\* The caller's rows whose launched parses.
WithoutBadDates == SelectSeq(df, LAMBDA r : to_datetime(r.launched) # NaT)

\* C7: a row whose launched is missing or does not parse belongs to no week
\* and to no window, is labelled false, raises nothing, and the other rows
\* get the labels they would get if it were not in the table.
C7_BadDatesExcluded ==
    /\ pc \in {"loop", "done"} =>
          /\ NaT \notin Range(unique_weeks)
          /\ \A w \in Range(unique_weeks) :
                \A k \in week_outcome(df_sorted, w, lookback_weeks,
                                       success_rate_threshold).history :
                    df_sorted[k].launched # NaT
    /\ Finished =>
          LET clean == LabelsOf(WithoutBadDates)
          IN  \A k \in DOMAIN df :
                IF df[k].launched \in {MissingCell, GarbageString}
                THEN ~result[k]
                ELSE result[k] = clean[df[k].idx]
    /\ (columns = Range(required_cols) /\ pc # "check_columns") => error = NoError

\* A finished run with a missing and a garbage launched, the garbage one on
\* a successful row of a category that is not trending in a week whose
\* window starts before day 0, next to a trending row.
C7_Witness ==
    /\ Finished
    /\ \E a, b, c \in DOMAIN df :
          /\ df[a].launched = MissingCell
          /\ df[b].launched = GarbageString /\ df[b].target = 1
          /\ Parsed[c].launched # NaT /\ ~result[c]
          /\ Parsed[c].main_category = df[b].main_category
          /\ WeekStart(Parsed[c].launch_year_week) - lookback_weeks * 7 <= NaT
    /\ \E k \in DOMAIN df : result[k]

\* C8: schema check.  When a required column is absent the detector raises
\* at once an error that names exactly the absent columns; nothing is sorted,
\* no week is processed, no label exists, and nothing runs afterwards.
C8_SchemaCheck ==
    (pc # "check_columns" /\ columns # Range(required_cols)) =>
        /\ pc = "raised"
        /\ error[1] = "ValueError"
        /\ Range(error[3]) = Range(required_cols) \ columns
        /\ error[3] # <<>>
        /\ df_sorted = <<>> /\ unique_weeks = <<>> /\ i = 0
        /\ is_trending = <<>> /\ result = <<>> /\ writes = <<>>
        /\ ~ENABLED Next

\* The detector has raised for a table that lacks two required columns.
C8_Witness ==
    /\ pc = "raised"
    /\ Len(error[3]) = 2
    /\ Len(df) > 0

\* All orders in which the weeks of a sequence can be processed.
RECURSIVE Orders(_)
Orders(S) ==
    IF S = {} THEN {<<>>}
    ELSE UNION {{<<w>> \o rest : rest \in Orders(S \ {w})} : w \in S}

WeekOfLabel(l) ==
    LET k == CHOOSE j \in DOMAIN df_sorted : df_sorted[j].idx = l
    IN  df_sorted[k].launch_year_week

\* C10: independent iterations.  A label is written at most once and only by
\* the iteration of the row's own week, and the loop run over the weeks in
\* any order ends with the label vector of the ascending loop.
C10_IterationsIndependent ==
    /\ pc \in {"loop", "done"} =>
          \A l \in DOMAIN writes :
             /\ Len(writes[l]) <= 1
             /\ \A n \in DOMAIN writes[l] : writes[l][n] = WeekOfLabel(l)
    /\ Finished =>
          \A order \in Orders(Range(unique_weeks)) :
             run_weeks(initial_series(df_sorted), df_sorted, order, lookback_weeks,
                       success_rate_threshold) = is_trending

\* A finished run over at least three weeks, two of which wrote labels, with
\* a trending row.
C10_Witness ==
    /\ Finished
    /\ Len(unique_weeks) >= 3
    /\ \E a, b \in DOMAIN writes :
          /\ writes[a] # <<>> /\ writes[b] # <<>>
          /\ writes[a] # writes[b]
          /\ is_trending[a]

---------------------------------------------------------------------------
(* build_features *)

InputWasMissing == "warn_input_missing" \in Range(events)

Before(a, b) ==
    \E m, n \in DOMAIN events : m < n /\ events[m] = a /\ events[n] = b

\* C9: dependency fallback of build_features.  With the input file present
\* the features are engineered and no cleaning is invoked; with the input
\* absent and the raw file present the cleaning runs first and the features
\* are then engineered from its output; with neither file the run fails with
\* the file-not-found error before anything is cleaned, computed or written.
C9_DependencyFallback ==
    bpc \in {"done", "raised"} =>
        /\ ~InputWasMissing =>
              /\ bpc = "done"
              /\ "clean" \notin Range(events)
              /\ Before("read_input", "write_output")
        /\ (InputWasMissing /\ fs.raw) =>
              /\ bpc = "done"
              /\ Before("clean", "read_input")
              /\ Before("read_input", "write_output")
        /\ (InputWasMissing /\ ~fs.raw) =>
              /\ bpc = "raised"
              /\ error[1] = "FileNotFoundError"
              /\ Range(events) \cap {"clean", "read_input", "static_features",
                                     "trending_feature", "write_output"} = {}
              /\ fs.output_rows = <<>>

=============================================================================
